---- MODULE Spec2Model ----
(***************************************************************************)
(* Model of src/src/dr_orchestrator.py: DatabaseNode and                   *)
(* DisasterRecoveryOrchestrator running on one asyncio event loop.         *)
(*                                                                         *)
(* Tasks are coroutines.  A task runs without interruption from the point  *)
(* the event loop resumes it up to its next await asyncio.sleep(...); the  *)
(* variable running holds the task that owns the loop ("none" when every   *)
(* task is suspended).  States with running = "none" are the states that   *)
(* another coroutine can observe.                                          *)
(*                                                                         *)
(* Lags are in tenths of a second, waits in seconds.                       *)
(***************************************************************************)
EXTENDS Integers, Sequences, FiniteSets, TLC

\* ---------------------------------------------------------------- bounds
\* number of monitoring ticks explored (the loop itself is unbounded)
MaxTicks == 2

\* number of direct log_metrics() calls explored
MaxLogCalls == 102

\* ------------------------------------------------------ program constants
max_wait == 30
PollStep == 2
LagThreshold == 10
MetricsCap == 100

\* the registry built by main(): add_node(primary), add_node(standby1),
\* add_node(standby2), in this order
nodes == <<"P", "S1", "S2">>
NodeSet == {nodes[i] : i \in 1..Len(nodes)}
None == "None"

\* values a successful lag query can return (0 stands for NULL or 0)
LagResults == {0, 20}

\* the monitoring task, and a task that awaits trigger_failover() itself
Monitor == "mon"
Callers == {"t1"}
Tasks == {Monitor} \cup Callers

VARIABLES
    is_primary,            \* DatabaseNode.is_primary, per node
    is_healthy,            \* DatabaseNode.is_healthy, per node
    replication_lag,       \* DatabaseNode.replication_lag, per node
    connection,            \* DatabaseNode.connection: "open" or "closed"
    primary_node,          \* orchestrator.primary_node (a node or None)
    monitoring,            \* orchestrator.monitoring
    failover_in_progress,  \* orchestrator.failover_in_progress
    metrics,               \* orchestrator.metrics
    pc,                    \* position of each task
    running,               \* task that owns the event loop, or "none"
    idx,                   \* monitor_cluster: index of the for loop over nodes
    new_primary,           \* trigger_failover local, per task
    waited,                \* trigger_failover local, per task
    promoted,              \* trigger_failover: result of promote_to_primary
    old_primary,           \* trigger_failover local, per task
    logged,                \* RTO and RPO logged by the failover that completes
    ticks,                 \* number of monitoring ticks begun
    hist,                  \* history of the failover a task has in flight
    aborted,               \* history: a failover has aborted while primary_node
                           \* was flagged unhealthy, and primary_node has not
                           \* been replaced or found healthy since
    appended,              \* history: every snapshot self.metrics.append() took
    checks,                \* history: the nodes the current tick has health
                           \* checked and lag probed
    call,                  \* history: the last DatabaseNode call a harness or
                           \* a recorded poll made, with its outcome
    status                 \* print_status: the dict get_cluster_status returned

vars == <<is_primary, is_healthy, replication_lag, connection, primary_node,
          monitoring, failover_in_progress, metrics, pc, running, idx,
          new_primary, waited, promoted, logged, old_primary, ticks, hist,
          aborted, appended, checks, call, status>>

nodeVars == <<is_primary, is_healthy, replication_lag, connection>>
localVars == <<new_primary, waited, promoted, old_primary>>
obsVars == <<appended, checks, call, status>>

\* ------------------------------------------------------------- DatabaseNode

\* outcome of a driver call: it succeeds ("ok"), raises and leaves the
\* connection usable ("fail"), or raises and leaves it closed ("lost").
\* The calls of the tasks below draw from the first two: a connection that
\* initialize() opened stays open
Outcomes == {"ok", "fail"}

\* every outcome of a driver call
AllOutcomes == {"ok", "fail", "lost"}

ConnAfter(c, o) == IF o = "lost" THEN "closed" ELSE c

\* connect(): <<is_healthy, connection, returned value>>: a fresh connection
\* on success; is_healthy = False on failure
connect(n, o, h, c) ==
    IF o = "ok" THEN <<h, "open", TRUE>> ELSE <<FALSE, c, FALSE>>

\* health_check(): <<is_healthy, connection, returned value>> after the call
health_check(n, o, h, c) ==
    IF c = "closed" THEN connect(n, o, h, c)
    ELSE IF o = "ok" THEN <<TRUE, c, TRUE>>
    ELSE <<FALSE, ConnAfter(c, o), FALSE>>

\* get_replication_lag() takes its except branch
ProbeFails(prim, c, o) == ~prim /\ ~(c = "open" /\ o = "ok")

\* variant: the except branch stores the 0.0 it returns
get_replication_lag_resets(prim, lag, c, o, r) ==
    IF prim THEN <<lag, c>>
    ELSE IF ~ProbeFails(prim, c, o) THEN <<(IF r # 0 THEN r ELSE 0), c>>
    ELSE <<0, ConnAfter(c, o)>>

\* get_replication_lag(): <<replication_lag, connection>> after the call;
\* r is the query result (self.replication_lag = lag if lag else 0.0)
get_replication_lag(prim, lag, c, o, r) ==
    IF prim THEN <<lag, c>>
    ELSE IF ~ProbeFails(prim, c, o) THEN <<(IF r # 0 THEN r ELSE 0), c>>
    ELSE <<lag, ConnAfter(c, o)>>

\* ----------------------------------------------------- candidate selection

\* list.sort(key=...) is stable: x goes after every element whose key is <= its own
RECURSIVE Insert(_, _, _)
Insert(x, s, key) ==
    IF s = <<>> THEN <<x>>
    ELSE IF key[Head(s)] <= key[x] THEN <<Head(s)>> \o Insert(x, Tail(s), key)
    ELSE <<x>> \o s

RECURSIVE SortByKey(_, _)
SortByKey(s, key) ==
    IF s = <<>> THEN <<>>
    ELSE Insert(s[Len(s)], SortByKey(SubSeq(s, 1, Len(s) - 1), key), key)

Eligible(n) == ~is_primary[n] /\ is_healthy[n]

\* variant: the filter forgets the health of the node
NotPrimary(n) == ~is_primary[n]
standbys_any_health == SelectSeq(nodes, NotPrimary)

\* standbys = [n for n in self.nodes if not n.is_primary and n.is_healthy]
standbys == SelectSeq(nodes, Eligible)

\* variant: the sort by lag is left out
SelectUnsorted == standbys[1]

\* standbys.sort(key=lambda x: x.replication_lag); new_primary = standbys[0]
SelectCandidate == SortByKey(standbys, replication_lag)[1]

\* -------------------------------------------------------------------- Init

\* no "FAILOVER COMPLETE" record
NoLog == [rto |-> -1, rpo |-> -1]

\* the roles and the primary a failover found when it passed the guard
Roles == [is_primary |-> is_primary, primary_node |-> primary_node]
NoRoles == [is_primary |-> [n \in NodeSet |-> FALSE], primary_node |-> None]

NoHist == [pre |-> NoRoles, selected |-> None, promote_on |-> None, polls |-> 0,
           promotes |-> 0]

NoChecks == [health |-> {}, lag |-> {}]
NoCall == [op |-> "none", node |-> None, raised |-> FALSE, result |-> FALSE]
NoStatus == [primary |-> None, nodes |-> <<>>]

\* the registry of main(), the orchestrator's fields and the tasks' locals
OrchestratorInit ==
    /\ is_primary = [n \in NodeSet |-> n = "P"]
    /\ replication_lag = [n \in NodeSet |-> 0]
    /\ primary_node = "P"
    /\ monitoring = TRUE
    /\ failover_in_progress = FALSE
    /\ metrics = <<>>
    /\ pc = [t \in Tasks |-> IF t = Monitor THEN "start" ELSE "idle"]
    /\ running = "none"
    /\ idx = 1
    /\ new_primary = [t \in Tasks |-> None]
    /\ waited = [t \in Tasks |-> 0]
    /\ promoted = [t \in Tasks |-> FALSE]
    /\ old_primary = [t \in Tasks |-> None]
    /\ logged = NoLog
    /\ ticks = 0
    /\ hist = [t \in Tasks |-> NoHist]
    /\ aborted = FALSE
    /\ appended = <<>>
    /\ checks = NoChecks
    /\ call = NoCall
    /\ status = NoStatus

\* the state after initialize() has connected every node and main() has
\* created the monitoring task
Init ==
    /\ OrchestratorInit
    /\ is_healthy = [n \in NodeSet |-> TRUE]
    /\ connection = [n \in NodeSet |-> "open"]

\* ------------------------------------------------------------- log_metrics

\* the snapshot log_metrics builds for node n; st tells whether get_stats
\* returned the counters (TRUE) or the empty dict (FALSE)
Metric(n, st) ==
    [timestamp |-> ticks, node |-> n, is_primary |-> is_primary[n],
     is_healthy |-> is_healthy[n], replication_lag |-> replication_lag[n],
     stats |-> st]

\* variant: a full history drops the new snapshot
AppendKeepOldest(m, e) ==
    LET a == Append(m, e)
    IN  IF Len(a) > MetricsCap THEN SubSeq(a, 1, MetricsCap) ELSE a

\* self.metrics.append(metric); if len > 100: self.metrics = self.metrics[-100:]
Append100(m, e) ==
    LET a == Append(m, e)
    IN  IF Len(a) > MetricsCap THEN SubSeq(a, Len(a) - MetricsCap + 1, Len(a))
        ELSE a

\* the loop of log_metrics from node i on; so[n] is the outcome of get_stats
\* on node n, a the snapshots appended so far.
\* Result: <<metrics, connection, a>>
RECURSIVE LogFrom(_, _, _, _, _)
LogFrom(i, m, c, so, a) ==
    IF i > Len(nodes) THEN <<m, c, a>>
    ELSE LET n == nodes[i]
             ok == c[n] = "open" /\ so[n] = "ok"
         IN  IF is_healthy[n]
             THEN LogFrom(i + 1, Append100(m, Metric(n, ok)),
                          [c EXCEPT ![n] = ConnAfter(c[n], so[n])], so,
                          Append(a, Metric(n, ok)))
             ELSE LogFrom(i + 1, m, c, so, a)

log_metrics(so) == LogFrom(1, metrics, connection, so, appended)

\* the outcomes get_stats draws from in the monitoring loop
StatsOutcomes == {"ok"}

\* --------------------------------------------------------- monitor_cluster

\* variant: the loop does not test the switch
LoopForever == "sleep"

\* while self.monitoring: await asyncio.sleep(5)
LoopHead == IF monitoring THEN "sleep" ELSE "done"

\* the event loop starts the task created by asyncio.create_task: it runs
\* to its first sleep
MonitorStart ==
    /\ pc[Monitor] = "start" /\ running = "none"
    /\ pc' = [pc EXCEPT ![Monitor] = LoopHead]
    /\ UNCHANGED <<nodeVars, primary_node, monitoring, failover_in_progress,
                   metrics, running, idx, localVars, logged, ticks, hist,
                   aborted, obsVars>>

\* variant: the tick timer also fires while the loop waits in its failover
WakeInFailover ==
    /\ pc[Monitor] \in {"sleep", "fo_sleep"} /\ running = "none"
    /\ ticks < MaxTicks
    /\ pc' = [pc EXCEPT ![Monitor] = "check"]
    /\ running' = Monitor
    /\ idx' = 1
    /\ ticks' = ticks + 1
    /\ UNCHANGED <<nodeVars, primary_node, monitoring, failover_in_progress,
                   metrics, localVars, logged, hist, aborted, obsVars>>

\* the sleep of 5 seconds is over: the tick begins
Wake ==
    /\ pc[Monitor] = "sleep" /\ running = "none"
    /\ ticks < MaxTicks
    /\ pc' = [pc EXCEPT ![Monitor] = "check"]
    /\ running' = Monitor
    /\ idx' = 1
    /\ ticks' = ticks + 1
    /\ UNCHANGED <<nodeVars, primary_node, monitoring, failover_in_progress,
                   metrics, localVars, logged, hist, aborted, obsVars>>

\* one iteration of: for node in self.nodes: node.health_check();
\*                   if not node.is_primary: node.get_replication_lag()
CheckNode ==
    /\ pc[Monitor] = "check" /\ running = Monitor
    /\ \E ho \in Outcomes, lo \in Outcomes, r \in LagResults :
         LET n  == nodes[idx]
             hc == health_check(n, ho, is_healthy[n], connection[n])
             gl == get_replication_lag(is_primary[n], replication_lag[n],
                                       hc[2], lo, r)
         IN  /\ is_healthy' = [is_healthy EXCEPT ![n] = hc[1]]
             /\ replication_lag' = [replication_lag EXCEPT ![n] = gl[1]]
             /\ connection' = [connection EXCEPT ![n] = gl[2]]
             /\ checks' = [health |-> checks.health \cup {n},
                           lag |-> IF is_primary[n] THEN checks.lag
                                   ELSE checks.lag \cup {n}]
    /\ IF idx = Len(nodes)
       THEN pc' = [pc EXCEPT ![Monitor] = "decide"] /\ idx' = 1
       ELSE pc' = pc /\ idx' = idx + 1
    /\ UNCHANGED <<is_primary, primary_node, monitoring, failover_in_progress,
                   metrics, running, localVars, logged, ticks, hist, aborted,
                   appended, call, status>>

\* if self.primary_node and not self.primary_node.is_healthy
PrimaryDown == primary_node # None /\ ~is_healthy[primary_node]

\* variant: no new failover for an outage in which one has aborted
DecideOnce ==
    /\ pc[Monitor] = "decide" /\ running = Monitor
    /\ pc' = [pc EXCEPT ![Monitor] =
                IF PrimaryDown /\ ~aborted THEN "fo_guard" ELSE "log"]
    /\ aborted' = (aborted /\ PrimaryDown)
    /\ UNCHANGED <<nodeVars, primary_node, monitoring, failover_in_progress,
                   metrics, running, idx, localVars, logged, ticks, hist,
                   obsVars>>

\* variant: the test of the primary's health has lost its negation
DecideHealthy ==
    /\ pc[Monitor] = "decide" /\ running = Monitor
    /\ pc' = [pc EXCEPT ![Monitor] =
                IF primary_node # None /\ is_healthy[primary_node]
                THEN "fo_guard" ELSE "log"]
    /\ aborted' = (aborted /\ PrimaryDown)
    /\ UNCHANGED <<nodeVars, primary_node, monitoring, failover_in_progress,
                   metrics, running, idx, localVars, logged, ticks, hist,
                   obsVars>>

\* lines 177-179: the monitor calls trigger_failover() or goes on to
\* log_metrics()
Decide ==
    /\ pc[Monitor] = "decide" /\ running = Monitor
    /\ pc' = [pc EXCEPT ![Monitor] = IF PrimaryDown THEN "fo_guard" ELSE "log"]
    /\ aborted' = (aborted /\ PrimaryDown)
    /\ UNCHANGED <<nodeVars, primary_node, monitoring, failover_in_progress,
                   metrics, running, idx, localVars, logged, ticks, hist,
                   obsVars>>

\* self.log_metrics(), then the head of the loop again
LogMetrics ==
    /\ pc[Monitor] = "log" /\ running = Monitor
    /\ \E so \in [NodeSet -> StatsOutcomes] :
         LET res == log_metrics(so)
         IN  metrics' = res[1] /\ connection' = res[2] /\ appended' = res[3]
    /\ pc' = [pc EXCEPT ![Monitor] = LoopHead]
    /\ running' = "none"
    /\ checks' = NoChecks
    /\ UNCHANGED <<is_primary, is_healthy, replication_lag, primary_node,
                   monitoring, failover_in_progress, idx, localVars, logged,
                   ticks, hist, aborted, call, status>>

\* -------------------------------------------------------- trigger_failover

\* where a task continues when trigger_failover returns: the monitor goes on
\* to log_metrics in the same run; the calling task ends
ReturnPc(t) == IF t = Monitor THEN "log" ELSE "returned"
ReturnRun(t) == IF t = Monitor THEN Monitor ELSE "none"

Return(t) ==
    /\ pc' = [pc EXCEPT ![t] = ReturnPc(t)]
    /\ running' = ReturnRun(t)
    /\ new_primary' = [new_primary EXCEPT ![t] = None]
    /\ waited' = [waited EXCEPT ![t] = 0]
    /\ promoted' = [promoted EXCEPT ![t] = FALSE]
    /\ old_primary' = [old_primary EXCEPT ![t] = None]
    /\ hist' = [hist EXCEPT ![t] = NoHist]
    /\ logged' = NoLog
    /\ call' = NoCall

\* the task enters trigger_failover(): the monitor from line 179 in its own
\* run, a calling task when the event loop starts it
AtGuard(t) ==
    \/ t = Monitor /\ pc[t] = "fo_guard" /\ running = t
    \/ t \in Callers /\ pc[t] = "idle" /\ running = "none"

\* variant: the guard is left out
NeverRunning == FALSE

\* if self.failover_in_progress: return
AlreadyRunning == failover_in_progress

\* variant: a trigger that finds a failover in progress clears the flag
GuardClears(t) ==
    /\ AtGuard(t)
    /\ IF AlreadyRunning
       THEN /\ pc' = [pc EXCEPT ![t] = ReturnPc(t)]
            /\ running' = ReturnRun(t)
            /\ failover_in_progress' = FALSE
            /\ UNCHANGED hist
       ELSE /\ failover_in_progress' = TRUE
            /\ pc' = [pc EXCEPT ![t] = "fo_select"]
            /\ running' = t
            /\ hist' = [hist EXCEPT ![t].pre = Roles]
    /\ UNCHANGED <<nodeVars, primary_node, monitoring, metrics, idx,
                   localVars, logged, ticks, aborted, obsVars>>

\* lines 186-190: the guard, then self.failover_in_progress = True
Guard(t) ==
    /\ AtGuard(t)
    /\ IF AlreadyRunning
       THEN /\ pc' = [pc EXCEPT ![t] = ReturnPc(t)]
            /\ running' = ReturnRun(t)
            /\ UNCHANGED <<failover_in_progress, hist>>
       ELSE /\ failover_in_progress' = TRUE
            /\ pc' = [pc EXCEPT ![t] = "fo_select"]
            /\ running' = t
            /\ hist' = [hist EXCEPT ![t].pre = Roles]
    /\ UNCHANGED <<nodeVars, primary_node, monitoring, metrics, idx,
                   localVars, logged, ticks, aborted, obsVars>>

\* variant: the bound of the wait is tested with <=
KeepWaitingInclusive(lag, w) == lag > LagThreshold /\ w <= max_wait

\* while new_primary.replication_lag > 1.0 and waited < max_wait
KeepWaiting(lag, w) == lag > LagThreshold /\ w < max_wait

\* lines 196-212: no healthy standby: clear the flag and return; otherwise
\* new_primary = standbys[0] after the sort, waited = 0, and the first test
\* of the wait loop, which suspends the task in asyncio.sleep(2) or not
Select(t) ==
    /\ pc[t] = "fo_select" /\ running = t
    /\ IF standbys = <<>>
       THEN /\ failover_in_progress' = FALSE
            /\ Return(t)
            /\ aborted' = (aborted \/ PrimaryDown)
       ELSE /\ new_primary' = [new_primary EXCEPT ![t] = SelectCandidate]
            /\ waited' = [waited EXCEPT ![t] = 0]
            /\ IF KeepWaiting(replication_lag[SelectCandidate], 0)
               THEN pc' = [pc EXCEPT ![t] = "fo_sleep"] /\ running' = "none"
               ELSE pc' = [pc EXCEPT ![t] = "fo_promote"] /\ running' = t
            /\ hist' = [hist EXCEPT ![t].selected = SelectCandidate]
            /\ UNCHANGED <<failover_in_progress, promoted, old_primary,
                           logged, aborted, call>>
    /\ UNCHANGED <<nodeVars, primary_node, monitoring, metrics, idx, ticks,
                   appended, checks, status>>

\* lines 214-216 and 212: the sleep is over;
\* new_primary.get_replication_lag() with outcome lo and query result r;
\* waited += 2; the loop test again
Probe(t, lo, r) ==
    /\ pc[t] = "fo_sleep" /\ running = "none"
    /\ LET n  == new_primary[t]
           gl == get_replication_lag(is_primary[n], replication_lag[n],
                                     connection[n], lo, r)
       IN  /\ replication_lag' = [replication_lag EXCEPT ![n] = gl[1]]
           /\ connection' = [connection EXCEPT ![n] = gl[2]]
           /\ IF KeepWaiting(gl[1], waited[t] + PollStep)
              THEN pc' = pc /\ running' = "none"
              ELSE pc' = [pc EXCEPT ![t] = "fo_promote"] /\ running' = t
    /\ waited' = [waited EXCEPT ![t] = waited[t] + PollStep]
    /\ hist' = [hist EXCEPT ![t].polls = hist[t].polls + 1]
    /\ UNCHANGED <<is_primary, is_healthy, primary_node, monitoring,
                   failover_in_progress, metrics, idx, new_primary, promoted,
                   old_primary, logged, ticks, aborted, appended, checks,
                   status>>

Poll(t) ==
    /\ \E lo \in Outcomes, r \in LagResults : Probe(t, lo, r)
    /\ UNCHANGED call

\* the same step, with the probe and its outcome recorded
PollCall(t) ==
    \E lo \in Outcomes, r \in LagResults :
      /\ Probe(t, lo, r)
      /\ LET n == new_primary[t]
         IN  call' = [op |-> "get_replication_lag", node |-> n,
                      raised |-> ProbeFails(is_primary[n], connection[n], lo),
                      result |-> FALSE]

\* variant: promote_to_primary reports success without setting is_primary
promote_without_role(n, o) ==
    IF connection[n] = "open" /\ o = "ok"
    THEN <<TRUE, is_primary[n], connection[n]>>
    ELSE <<FALSE, is_primary[n], ConnAfter(connection[n], o)>>

\* variant: is_primary is set before the promotion command is issued
promote_role_first(n, o) ==
    IF connection[n] = "open" /\ o = "ok"
    THEN <<TRUE, TRUE, connection[n]>>
    ELSE <<FALSE, TRUE, ConnAfter(connection[n], o)>>

\* promote_to_primary() of node n with outcome o: <<result, is_primary of n,
\* connection of n>>
promote_to_primary(n, o) ==
    IF connection[n] = "open" /\ o = "ok"
    THEN <<TRUE, TRUE, connection[n]>>
    ELSE <<FALSE, is_primary[n], ConnAfter(connection[n], o)>>

\* variant: the old primary keeps its role
DemoteSkipped(rp, old) == rp

\* lines 220-224 on the roles rp that promote_to_primary left:
\* old_primary = self.primary_node; self.primary_node = new_primary;
\* if old_primary: old_primary.is_primary = False
Demote(rp, old) ==
    IF old # None THEN [rp EXCEPT ![old] = FALSE] ELSE rp

\* lines 219-232: the promotion; on success the registry update and the
\* "FAILOVER COMPLETE" log with RTO and RPO, else "FAILOVER FAILED"
Promote(t) ==
    /\ pc[t] = "fo_promote" /\ running = t
    /\ \E o \in Outcomes :
         LET n  == new_primary[t]
             pr == promote_to_primary(n, o)
             rp == [is_primary EXCEPT ![n] = pr[2]]
         IN  /\ connection' = [connection EXCEPT ![n] = pr[3]]
             /\ promoted' = [promoted EXCEPT ![t] = pr[1]]
             /\ hist' = [hist EXCEPT ![t].promote_on = n,
                                      ![t].promotes = hist[t].promotes + 1]
             /\ IF pr[1]
                THEN /\ old_primary' = [old_primary EXCEPT ![t] = primary_node]
                     /\ primary_node' = n
                     /\ is_primary' = Demote(rp, primary_node)
                     /\ logged' = [rto |-> waited[t], rpo |-> replication_lag[n]]
                ELSE /\ is_primary' = rp
                     /\ UNCHANGED <<old_primary, primary_node, logged>>
    /\ pc' = [pc EXCEPT ![t] = "fo_clear"]
    /\ UNCHANGED <<is_healthy, replication_lag, monitoring,
                   failover_in_progress, metrics, running, idx, new_primary,
                   waited, ticks, aborted, obsVars>>

\* variant: the return leaves the flag set
ClearKeepsFlag(t) ==
    /\ pc[t] = "fo_clear" /\ running = t
    /\ UNCHANGED failover_in_progress
    /\ Return(t)
    /\ aborted' = (~promoted[t] /\ (aborted \/ PrimaryDown))
    /\ UNCHANGED <<nodeVars, primary_node, monitoring, metrics, idx, ticks,
                   appended, checks, status>>

\* line 234: self.failover_in_progress = False, and the return
Clear(t) ==
    /\ pc[t] = "fo_clear" /\ running = t
    /\ failover_in_progress' = FALSE
    /\ Return(t)
    /\ aborted' = (~promoted[t] /\ (aborted \/ PrimaryDown))
    /\ UNCHANGED <<nodeVars, primary_node, monitoring, metrics, idx, ticks,
                   appended, checks, status>>

\* ------------------------------------------------------ get_cluster_status

\* variant: the primary reported is the node registered as primary at start
status_initial_primary ==
    [primary |-> nodes[1],
     total_nodes |-> Len(nodes),
     healthy_nodes |-> Cardinality({n \in NodeSet : is_healthy[n]}),
     nodes |-> [i \in 1..Len(nodes) |->
                  [name |-> nodes[i],
                   is_primary |-> is_primary[nodes[i]],
                   is_healthy |-> is_healthy[nodes[i]],
                   replication_lag |-> replication_lag[nodes[i]]]]]

\* the dict get_cluster_status() returns (the timestamp left out)
get_cluster_status ==
    [primary |-> IF primary_node # None THEN primary_node ELSE None,
     total_nodes |-> Len(nodes),
     healthy_nodes |-> Cardinality({n \in NodeSet : is_healthy[n]}),
     nodes |-> [i \in 1..Len(nodes) |->
                  [name |-> nodes[i],
                   is_primary |-> is_primary[nodes[i]],
                   is_healthy |-> is_healthy[nodes[i]],
                   replication_lag |-> replication_lag[nodes[i]]]]]

\* main() between two of its sleeps: print_status() runs without an await
MainTask == "main"

\* status = self.get_cluster_status()
QueryStatus ==
    /\ running = "none"
    /\ status' = get_cluster_status
    /\ running' = MainTask
    /\ UNCHANGED <<nodeVars, primary_node, monitoring, failover_in_progress,
                   metrics, pc, idx, localVars, logged, ticks, hist, aborted,
                   appended, checks, call>>

\* the rest of print_status(): the dict is printed and dropped
PrintStatus ==
    /\ running = MainTask
    /\ status' = NoStatus
    /\ running' = "none"
    /\ UNCHANGED <<nodeVars, primary_node, monitoring, failover_in_progress,
                   metrics, pc, idx, localVars, logged, ticks, hist, aborted,
                   appended, checks, call>>

\* ---------------------------------------------------------- specification

Failover(t) ==
    \/ Guard(t)
    \/ Select(t)
    \/ Poll(t)
    \/ Promote(t)
    \/ Clear(t)

MonitorStep ==
    \/ MonitorStart
    \/ Wake
    \/ CheckNode
    \/ Decide
    \/ LogMetrics

Next ==
    \/ MonitorStep
    \/ \E t \in Tasks : Failover(t)

Spec == Init /\ [][Next]_vars

\* the event loop runs a task that is ready: a running task goes on to its
\* next await, and a sleep that is over resumes its task
Fairness ==
    /\ WF_vars(MonitorStep)
    /\ \A t \in Tasks : WF_vars(Failover(t))

FairSpec == Spec /\ Fairness

\* the same tasks, with the probes of the catch-up wait recorded in call
RecordedFailover(t) ==
    \/ Guard(t)
    \/ Select(t)
    \/ PollCall(t)
    \/ Promote(t)
    \/ Clear(t)

ProbeNext ==
    \/ MonitorStep
    \/ \E t \in Tasks : RecordedFailover(t)

ProbeSpec == Init /\ [][ProbeNext]_vars

\* main() line 369: dr.monitoring = False, between two runs of the tasks.
\* A loop that sleeps with every tick of the bound used up could not run
\* the tick it has committed to, so the switch is cleared before that
StopMonitoring ==
    /\ running = "none"
    /\ monitoring
    /\ ticks < MaxTicks \/ pc[Monitor] # "sleep"
    /\ monitoring' = FALSE
    /\ UNCHANGED <<nodeVars, primary_node, failover_in_progress, metrics, pc,
                   running, idx, localVars, logged, ticks, hist, aborted,
                   obsVars>>

StopNext ==
    \/ Next
    \/ StopMonitoring

StopSpec == Init /\ [][StopNext]_vars /\ Fairness

\* the tasks and the status queries of main()
StatusNext ==
    \/ Next
    \/ QueryStatus
    \/ PrintStatus

StatusSpec == Init /\ [][StatusNext]_vars

\* ------------------------------------------------------ DatabaseNode calls

\* a caller invokes node.health_check() between the runs of the tasks; the
\* driver call draws from every outcome
HealthCheckCall(n) ==
    /\ running = "none"
    /\ \E o \in AllOutcomes :
         LET hc == health_check(n, o, is_healthy[n], connection[n])
         IN  /\ is_healthy' = [is_healthy EXCEPT ![n] = hc[1]]
             /\ connection' = [connection EXCEPT ![n] = hc[2]]
             /\ call' = [op |-> "health_check", node |-> n,
                          raised |-> ~hc[3], result |-> hc[3]]
    /\ UNCHANGED <<is_primary, replication_lag, primary_node, monitoring,
                   failover_in_progress, metrics, pc, running, idx, localVars,
                   logged, ticks, hist, aborted, appended, checks, status>>

\* a caller invokes node.get_replication_lag()
LagProbeCall(n) ==
    /\ running = "none"
    /\ \E o \in AllOutcomes, r \in LagResults :
         LET gl == get_replication_lag(is_primary[n], replication_lag[n],
                                       connection[n], o, r)
         IN  /\ replication_lag' = [replication_lag EXCEPT ![n] = gl[1]]
             /\ connection' = [connection EXCEPT ![n] = gl[2]]
             /\ call' = [op |-> "get_replication_lag", node |-> n,
                          raised |-> ProbeFails(is_primary[n], connection[n], o),
                          result |-> FALSE]
    /\ UNCHANGED <<is_primary, is_healthy, primary_node, monitoring,
                   failover_in_progress, metrics, pc, running, idx, localVars,
                   logged, ticks, hist, aborted, appended, checks, status>>

NodeNext == \E n \in NodeSet : HealthCheckCall(n) \/ LagProbeCall(n)

NodeSpec == Init /\ [][NodeNext]_vars

\* ------------------------------------------------------ log_metrics calls

\* the nodes in any combination of health flag and connection state that
\* health checks and failing driver calls leave behind
MetricsInit ==
    /\ OrchestratorInit
    /\ is_healthy \in [NodeSet -> BOOLEAN]
    /\ connection \in [NodeSet -> {"open", "closed"}]

\* a caller invokes log_metrics() between the runs of the tasks; ticks
\* stands for the clock the timestamp is read from
LogCall ==
    /\ running = "none"
    /\ ticks < MaxLogCalls
    /\ \E so \in [NodeSet -> StatsOutcomes] :
         LET res == log_metrics(so)
         IN  metrics' = res[1] /\ connection' = res[2] /\ appended' = res[3]
    /\ ticks' = ticks + 1
    /\ UNCHANGED <<is_primary, is_healthy, replication_lag, primary_node,
                   monitoring, failover_in_progress, pc, running, idx,
                   localVars, logged, hist, aborted, checks, call, status>>

MetricsSpec == MetricsInit /\ [][LogCall]_vars

\* ------------------------------------------------------------------ claims

\* states another coroutine can observe: every task is suspended in a sleep,
\* not started, or has returned
Observable == running = "none"

\* the task is past the failover_in_progress guard and has not returned
InFailover(t) == pc[t] \in {"fo_select", "fo_sleep", "fo_promote", "fo_clear"}

Primaries == {n \in NodeSet : is_primary[n]}

Index(n) == CHOOSE i \in 1..Len(nodes) : nodes[i] = n

\* C1: in every state another coroutine can observe, at most one node has
\* is_primary = true, also while a failover is in flight
C1_AtMostOnePrimary == Observable => Cardinality(Primaries) <= 1

\* a second failover is waiting for its candidate after a first one has
\* promoted a standby
C1_Witness ==
    /\ Observable /\ failover_in_progress
    /\ primary_node # "P" /\ is_primary[primary_node]
    /\ \E t \in Tasks : pc[t] = "fo_sleep"

\* C2: at most one trigger_failover execution is past the guard at a time
C2_OneFailover ==
    /\ Cardinality({t \in Tasks : InFailover(t)}) <= 1
    /\ \A t \in Tasks : InFailover(t) => failover_in_progress

\* the monitor reaches the guard while the calling task waits for catch-up
C2_Witness == pc[Monitor] = "fo_guard" /\ pc["t1"] = "fo_sleep"

\* C3: trigger_failover called while failover_in_progress is true returns
\* at once and changes no role, health, lag, primary_node, flag or metrics,
\* issues no promotion, and the task does not enter the failover later
C3_ReentrantNoOp ==
    [][\A t \in Tasks :
         (AtGuard(t) /\ failover_in_progress /\ pc'[t] # pc[t]) =>
            /\ UNCHANGED <<is_primary, is_healthy, replication_lag,
                           primary_node, failover_in_progress, metrics,
                           localVars, hist>>
            /\ pc'[t] = ReturnPc(t)
            /\ ~InFailover(t)']_vars

\* the monitor is back from trigger_failover with the flag still set: its
\* call was the re-entrant one
C3_Witness == pc[Monitor] = "log" /\ failover_in_progress

\* C4: the candidate is a healthy non-primary node of minimum lag at
\* selection time, the first such node in registry order, and it is the
\* node the promotion is invoked on
C4_Selection ==
    /\ [][\A t \in Tasks :
            (pc[t] = "fo_select" /\ pc'[t] # pc[t]
               /\ \E n \in NodeSet : Eligible(n)) =>
              LET c == new_primary'[t]
              IN  /\ c \in NodeSet
                  /\ Eligible(c)
                  /\ \A n \in NodeSet : Eligible(n) =>
                       /\ replication_lag[c] <= replication_lag[n]
                       /\ replication_lag[n] = replication_lag[c]
                            => Index(c) <= Index(n)]_vars
    /\ [](\A t \in Tasks :
            hist[t].promote_on # None => hist[t].promote_on = new_primary[t])
    /\ [][\A t \in Tasks :
            new_primary[t] # None => new_primary'[t] \in {new_primary[t], None}]_vars

\* the monitor waits for S1 although the unhealthy standby S2 has less lag
C4_Witness ==
    /\ pc[Monitor] = "fo_sleep" /\ new_primary[Monitor] = "S1"
    /\ ~is_primary["S2"] /\ ~is_healthy["S2"]
    /\ replication_lag["S2"] < replication_lag["S1"]

\* C5: when the promotion succeeded, on return primary_node is the
\* candidate, the candidate is primary, the previous primary is not, every
\* other node's role is as it was when the failover began, and
\* failover_in_progress is false
C5_SuccessPost ==
    [][\A t \in Tasks :
         (pc[t] = "fo_clear" /\ pc'[t] # pc[t] /\ promoted[t]) =>
            LET c   == hist[t].selected
                old == hist[t].pre.primary_node
            IN  /\ primary_node' = c
                /\ is_primary'[c]
                /\ old # None /\ old # c /\ ~is_primary'[old]
                /\ \A n \in NodeSet \ {c, old} :
                     is_primary'[n] = hist[t].pre.is_primary[n]
                /\ ~failover_in_progress']_vars

\* the monitor's promotion succeeded and the old primary is still unhealthy
C5_Witness ==
    /\ pc[Monitor] = "fo_clear" /\ promoted[Monitor]
    /\ primary_node = new_primary[Monitor]
    /\ ~is_healthy[old_primary[Monitor]]

\* C6: failover_in_progress is never stuck: a failover that set the flag
\* terminates and has cleared it when it returns, on every path
C6_FlagCleared ==
    /\ failover_in_progress ~> ~failover_in_progress
    /\ [][\A t \in Tasks :
            (InFailover(t) /\ ~InFailover(t)') => ~failover_in_progress']_vars

\* the catch-up wait has timed out with the flag set
C6_Witness ==
    \E t \in Tasks :
      /\ failover_in_progress /\ pc[t] = "fo_promote"
      /\ waited[t] = max_wait
      /\ replication_lag[new_primary[t]] > LagThreshold

\* a step of task t inside its wait loop
WaitStep(t) ==
    /\ pc[t] \in {"fo_select", "fo_sleep"}
    /\ pc'[t] # pc[t] \/ waited'[t] # waited[t]

\* C7: the wait goes on exactly while the candidate's lag is above 1.0 and
\* the accumulated wait is below 30, in steps of 2 and at most 15 polls; when
\* it ends, by catch-up or by timeout, the promotion is invoked on the same
\* candidate, and a success logs the waited time and the remaining lag
C7_BoundedWait ==
    /\ [](\A t \in Tasks :
            /\ hist[t].polls <= 15
            /\ waited[t] = 2 * hist[t].polls
            /\ waited[t] <= max_wait)
    /\ [][\A t \in Tasks :
            /\ (WaitStep(t) /\ pc'[t] = "fo_sleep") =>
                 /\ replication_lag'[new_primary'[t]] > LagThreshold
                 /\ waited'[t] < max_wait
            /\ (WaitStep(t) /\ pc'[t] = "fo_promote") =>
                 \/ replication_lag'[new_primary'[t]] <= LagThreshold
                 \/ waited'[t] = max_wait
            /\ (pc[t] = "fo_sleep" /\ WaitStep(t)) =>
                 /\ hist'[t].polls = hist[t].polls + 1
                 /\ new_primary'[t] = new_primary[t]
            /\ (pc[t] = "fo_promote" /\ pc'[t] # pc[t]) =>
                 /\ hist'[t].promote_on = hist[t].selected
                 /\ promoted'[t] =>
                      logged' = [rto |-> waited[t],
                                 rpo |-> replication_lag[hist[t].selected]]]_vars

\* the promotion succeeded after 15 polls with the lag still at 2.0
C7_Witness ==
    \E t \in Tasks :
      /\ pc[t] = "fo_clear" /\ promoted[t]
      /\ hist[t].polls = 15 /\ waited[t] = max_wait
      /\ logged = [rto |-> 30, rpo |-> 20]
      /\ primary_node = hist[t].selected

\* C8: when no node is non-primary and healthy, the attempt clears the flag
\* and returns with roles, health, lag and primary_node as they were, the
\* old primary still primary, and no promotion issued
C8_NoStandbyAbort ==
    [][\A t \in Tasks :
         (pc[t] = "fo_select" /\ pc'[t] # pc[t]
            /\ ~ \E n \in NodeSet : Eligible(n)) =>
            /\ UNCHANGED <<is_primary, is_healthy, replication_lag,
                           primary_node>>
            /\ is_primary' = hist[t].pre.is_primary
            /\ primary_node' = hist[t].pre.primary_node
            /\ is_primary'[primary_node']
            /\ hist[t].promotes = 0 /\ hist'[t].promotes = 0
            /\ ~InFailover(t)'
            /\ ~failover_in_progress']_vars

\* the monitor is back from an attempt of the first tick that found every
\* node unhealthy
C8_Witness ==
    /\ pc[Monitor] = "log" /\ pc["t1"] = "idle" /\ ticks = 1
    /\ aborted /\ ~failover_in_progress
    /\ \A n \in NodeSet : ~is_healthy[n]
    /\ is_primary[primary_node]

\* C9: when promote_to_primary fails, the candidate stays non-primary, the
\* old primary's role and primary_node are unchanged, and the flag is
\* false on return
C9_PromotionFailure ==
    [][\A t \in Tasks :
         /\ (pc[t] = "fo_promote" /\ pc'[t] # pc[t] /\ ~promoted'[t]) =>
              /\ UNCHANGED <<is_primary, primary_node>>
              /\ ~is_primary'[new_primary[t]]
         /\ (pc[t] = "fo_clear" /\ pc'[t] # pc[t] /\ ~promoted[t]) =>
              /\ is_primary' = hist[t].pre.is_primary
              /\ primary_node' = hist[t].pre.primary_node
              /\ ~is_primary'[hist[t].selected]
              /\ ~failover_in_progress']_vars

\* a promotion has failed and the failover is about to return
C9_Witness ==
    \E t \in Tasks :
      /\ pc[t] = "fo_clear" /\ ~promoted[t] /\ hist[t].promotes = 1
      /\ ~is_healthy[primary_node]

C11_PrimaryLagZero ==
    Observable =>
      /\ \A n \in NodeSet : is_primary[n] => replication_lag[n] = 0
      /\ \A i \in 1..Len(nodes) :
           get_cluster_status.nodes[i].is_primary =>
             get_cluster_status.nodes[i].replication_lag = 0
      /\ \A i \in 1..Len(metrics) :
           metrics[i].is_primary => metrics[i].replication_lag = 0

\* C12: when the lag probe of a standby fails, the stored replication_lag
\* keeps its previous value and is not reset to 0, so the catch-up loop
\* tests the last lag a probe observed: with that lag above 1.0 a failing
\* probe never ends the wait before the timeout
C12_StaleLagRetained ==
    [][\A t \in Tasks :
         (pc[t] = "fo_sleep" /\ waited'[t] # waited[t] /\ call'.raised) =>
            LET n == new_primary[t]
            IN  /\ call'.op = "get_replication_lag" /\ call'.node = n
                /\ replication_lag' = replication_lag
                /\ pc'[t] = "fo_sleep" <=>
                     KeepWaiting(replication_lag[n], waited'[t])
                /\ (replication_lag[n] > LagThreshold
                      /\ pc'[t] = "fo_promote") => waited'[t] = max_wait]_vars

\* a probe of the calling task's wait has failed and the wait goes on with
\* the lag of 2.0 the monitor observed
C12_Witness ==
    /\ pc["t1"] = "fo_sleep" /\ waited["t1"] = 4
    /\ call.op = "get_replication_lag" /\ call.raised
    /\ replication_lag[new_primary["t1"]] = 20

\* C13: after every health_check call is_healthy equals the value the call
\* returned, on the probe of an open connection and on the reconnect of a
\* closed one, also for a node that was flagged unhealthy before the call
C13_HealthFollowsCheck ==
    call.op = "health_check" => is_healthy[call.node] = call.result

\* the last k elements of s
LastOf(s, k) == SubSeq(s, Len(s) - k + 1, Len(s))

\* C14: metrics never holds more than 100 entries, and after any number of
\* appends it is the last min(total, 100) snapshots ever appended, in append
\* order: the oldest entry is the one evicted
C14_OldestEvicted ==
    /\ Len(metrics) <= MetricsCap
    /\ metrics = LastOf(appended, IF Len(appended) < MetricsCap
                                  THEN Len(appended) ELSE MetricsCap)

\* the 101st append has evicted the first snapshot and kept the 100th
C14_Witness ==
    /\ Len(appended) = MetricsCap + 1 /\ Len(metrics) = MetricsCap
    /\ metrics[1] = appended[2]
    /\ metrics[MetricsCap - 1] = appended[MetricsCap]
    /\ metrics[1] # appended[1]

\* the snapshots a step has appended
Appended == SubSeq(appended', Len(appended) + 1, Len(appended'))

\* C15: a log_metrics call appends exactly one snapshot for every healthy
\* node whose get_stats succeeded, and none for an unhealthy node or for a
\* healthy node whose get_stats returned the empty dict
C15_FailedStatsSkipped ==
    [][ticks' # ticks =>
         /\ \A i \in 1..Len(Appended) : Appended[i].stats
         /\ \A n \in NodeSet :
              Cardinality({i \in 1..Len(Appended) : Appended[i].node = n}) =
                IF is_healthy[n] /\ connection[n] = "open" THEN 1 ELSE 0]_vars

\* C16: get_cluster_status changes no orchestrator or node state, and
\* wherever it runs between the steps of the monitoring loop and of a
\* failover, the primary it reports is a node it reports with is_primary =
\* true and it reports no other node with is_primary = true
C16_NoTornStatus ==
    /\ [](status # NoStatus =>
            /\ status.primary # None
            /\ \A i \in 1..Len(nodes) :
                 status.nodes[i].is_primary <=>
                   status.nodes[i].name = status.primary)
    /\ [][status' # status =>
            UNCHANGED <<nodeVars, primary_node, monitoring,
                        failover_in_progress, metrics, pc, localVars>>]_vars

\* a status taken while a second failover waits for its candidate, after a
\* first one has replaced the primary
C16_Witness ==
    /\ status # NoStatus /\ status.primary # "P"
    /\ failover_in_progress
    /\ \E t \in Tasks : pc[t] = "fo_sleep"

\* C17: once monitoring is cleared the loop eventually exits; a failover the
\* loop has in flight is not interrupted and returns with the flag cleared
\* before the loop exits; the loop exits where it tests the switch, at the
\* head of the next tick, and begins no health check, failover or metrics
\* append afterwards
C17_CooperativeStop ==
    /\ ~monitoring ~> pc[Monitor] = "done"
    /\ [][/\ (~monitoring /\ InFailover(Monitor)) =>
               \/ InFailover(Monitor)'
               \/ pc'[Monitor] = "log" /\ ~failover_in_progress'
          /\ (pc[Monitor] # "done" /\ pc'[Monitor] = "done") =>
               /\ ~monitoring /\ pc[Monitor] \in {"start", "log"}
               /\ hist[Monitor] = NoHist
          /\ (pc[Monitor] \in {"start", "log"} /\ pc'[Monitor] # pc[Monitor]) =>
               (pc'[Monitor] = "done" <=> ~monitoring)
          /\ pc[Monitor] = "done" =>
               /\ pc'[Monitor] = "done"
               /\ UNCHANGED <<checks, appended, metrics>>
               /\ hist'[Monitor] = hist[Monitor]]_vars

\* the switch is cleared while the loop waits for the candidate of its
\* failover
C17_Witness ==
    /\ ~monitoring /\ pc[Monitor] = "fo_sleep" /\ waited[Monitor] > 0
    /\ failover_in_progress

\* C18: in every tick health_check has run on every node, and the lag probe
\* on every non-primary node, before the failover decision; the loop calls
\* trigger_failover in the tick if and only if primary_node exists and is
\* flagged unhealthy after those checks; the metrics of the tick are appended
\* only after that call has returned; so the loop never starts a failover
\* while primary_node is flagged healthy
C18_TickOrder ==
    /\ [](pc[Monitor] = "decide" =>
            /\ checks.health = NodeSet
            /\ checks.lag = {n \in NodeSet : ~is_primary[n]})
    /\ [][/\ (pc[Monitor] = "decide" /\ pc'[Monitor] # "decide") =>
               /\ pc'[Monitor] = "fo_guard" <=> PrimaryDown
               /\ pc'[Monitor] = "log" <=> ~PrimaryDown
          /\ (pc[Monitor] # "fo_guard" /\ pc'[Monitor] = "fo_guard") =>
               pc[Monitor] = "decide" /\ checks.health = NodeSet
          /\ (~InFailover(Monitor) /\ InFailover(Monitor)') =>
               PrimaryDown /\ checks.health = NodeSet
          /\ appended' # appended =>
               /\ pc[Monitor] = "log" /\ hist[Monitor] = NoHist
               /\ checks.health = NodeSet
               /\ Len(appended') > Len(appended)]_vars

\* the loop is about to append the metrics of the tick in which its own
\* failover replaced the primary
C18_Witness ==
    /\ pc[Monitor] = "log" /\ pc["t1"] = "idle"
    /\ primary_node # "P" /\ ~is_healthy["P"] /\ ~failover_in_progress
    /\ checks.health = NodeSet /\ checks.lag = {"S1", "S2"}

\* C19 as stated: while any trigger_failover execution is in progress, the
\* monitoring loop runs no health check and no lag probe on any node
C19_TicksSerialized ==
    [][failover_in_progress =>
         /\ checks'.health \subseteq checks.health
         /\ checks'.lag \subseteq checks.lag]_vars

\* C19 as the code has it: while a failover that the monitoring loop started
\* is in progress, the loop begins no tick and runs no health check or lag
\* probe of a tick, and no health flag changes, until that failover has
\* returned; a failover that another task started does not hold the ticks
\* back
C19_OwnFailoverSerialized ==
    [][InFailover(Monitor) =>
         /\ UNCHANGED <<checks, ticks, is_healthy, appended>>
         /\ \A n \in NodeSet \ {new_primary'[Monitor]} :
              replication_lag'[n] = replication_lag[n]
         /\ InFailover(Monitor)' \/ pc'[Monitor] = "log"]_vars

\* the loop is in the last poll of its own catch-up wait, after the calling
\* task has returned
C19_Witness ==
    /\ pc[Monitor] = "fo_sleep" /\ waited[Monitor] = max_wait - PollStep
    /\ pc["t1"] = "returned" /\ checks.health = NodeSet

\* C20: whenever promote_to_primary is about to be called, at the end of the
\* catch-up wait, the candidate is still flagged healthy and is not primary
C20_PromotedWhileHealthy ==
    \A t \in Tasks :
      pc[t] = "fo_promote" =>
        /\ is_healthy[new_primary[t]]
        /\ ~is_primary[new_primary[t]]
====
